---- MODULE Spec2Model ----
(***************************************************************************)
(* Model of the Telco churn batch pipeline: orchestrator.run_pipeline      *)
(* sequencing ingestion.main, transformation.main and modeling.main, the   *)
(* cleaning rules of transformation.clean_and_transform, the full-replace  *)
(* load into silver.customers_staging and the statement loop of            *)
(* modeling.build_gold_models.                                             *)
(*                                                                         *)
(* Representation.  Raw cells are strings, as read from the CSV file.      *)
(* Numbers are kept in hundredths (the literal "29.85" is 2985) so that    *)
(* decimal charges and the truncation of astype(int) are exact; tenure is  *)
(* a plain integer after astype(int).  avg_monthly_revenue is the exact    *)
(* quotient, kept as a fraction [num, den] of hundredths.  A missing value *)
(* (NaN), read from an empty cell or left by a mapping, is the string      *)
(* "NaN".                                                                  *)
(*                                                                         *)
(* Specifications.  Every statement the program waits on the store for is *)
(* a step of its own: to_sql's drop, create, chunk inserts and commit, and *)
(* each query of validate_silver_data.  In Spec no other session is at     *)
(* work.  SpecStoreFault adds a store that loses rows after the load;      *)
(* SpecReader adds another session that reads the staging table.           *)
(***************************************************************************)
EXTENDS Integers, Sequences, FiniteSets, TLC

\* ------------------------------------------------------------------ bounds
MaxRows == 2
MaxRuns == 2
MaxStmts == 2

\* ----------------------------------------------------------------- helpers
Range(s) == {s[i] : i \in 1..Len(s)}

SeqsUpTo(S, n) == UNION {[1..k -> S] : k \in 0..n}

RECURSIVE SelectIdx(_, _, _)
\* The subsequence of s at the positions i (from position i on) with keep[i].
SelectIdx(s, keep, i) ==
    IF i > Len(s) THEN <<>>
    ELSE (IF keep[i] THEN <<s[i]>> ELSE <<>>) \o SelectIdx(s, keep, i + 1)

RECURSIVE CountIdx(_, _)
CountIdx(keep, i) ==
    IF i > Len(keep) THEN 0
    ELSE (IF keep[i] THEN 1 ELSE 0) + CountIdx(keep, i + 1)

\* ------------------------------------------------------------ raw schema
RawColumns ==
    {"customerID", "gender", "SeniorCitizen", "Partner", "Dependents", "tenure",
     "PhoneService", "MultipleLines", "InternetService", "OnlineSecurity",
     "OnlineBackup", "DeviceProtection", "TechSupport", "StreamingTV",
     "StreamingMovies", "Contract", "PaperlessBilling", "PaymentMethod",
     "MonthlyCharges", "TotalCharges", "Churn"}

column_mapping ==
    ("customerID" :> "customer_id") @@ ("gender" :> "gender") @@
    ("SeniorCitizen" :> "senior_citizen") @@ ("Partner" :> "partner") @@
    ("Dependents" :> "dependents") @@ ("tenure" :> "tenure") @@
    ("PhoneService" :> "phone_service") @@ ("MultipleLines" :> "multiple_lines") @@
    ("InternetService" :> "internet_service") @@
    ("OnlineSecurity" :> "online_security") @@ ("OnlineBackup" :> "online_backup") @@
    ("DeviceProtection" :> "device_protection") @@ ("TechSupport" :> "tech_support") @@
    ("StreamingTV" :> "streaming_tv") @@ ("StreamingMovies" :> "streaming_movies") @@
    ("Contract" :> "contract_type") @@ ("PaperlessBilling" :> "paperless_billing") @@
    ("PaymentMethod" :> "payment_method") @@ ("MonthlyCharges" :> "monthly_charges") @@
    ("TotalCharges" :> "total_charges") @@ ("Churn" :> "churn")

\* DataFrame.rename(columns=column_mapping): a name of the mapping is replaced,
\* any other name is left alone, a name of the mapping that is absent is ignored.
rename(cols) ==
    {IF c \in DOMAIN column_mapping THEN column_mapping[c] ELSE c : c \in cols}

\* The columns clean_and_transform reads by name (df_clean['...']); reading an
\* absent one raises KeyError.
service_columns ==
    {"online_security", "online_backup", "device_protection", "tech_support",
     "streaming_tv", "streaming_movies"}

CleanAccessed ==
    {"total_charges", "tenure", "monthly_charges", "senior_citizen", "partner",
     "dependents", "phone_service", "paperless_billing", "churn", "gender",
     "multiple_lines", "customer_id"} \cup service_columns

\* The columns clean_and_transform reads after df_clean['gender'].str.title().
AccessedAfterTitle == service_columns \cup {"multiple_lines", "customer_id"}

\* The columns clean_and_transform adds, and the one it drops.
DerivedColumns == {"churned", "avg_monthly_revenue", "customer_segment"}

column_order ==
    {"customer_id", "gender", "senior_citizen", "partner", "dependents", "tenure",
     "phone_service", "multiple_lines", "internet_service", "online_security",
     "online_backup", "device_protection", "tech_support", "streaming_tv",
     "streaming_movies", "contract_type", "paperless_billing", "payment_method",
     "monthly_charges", "total_charges", "avg_monthly_revenue", "customer_segment",
     "churned", "ingestion_timestamp"}

\* ------------------------------------------------------- numeric coercion
\* The numeric literals of the model's inputs and their values in hundredths.
NumericLiteral ==
    ("-3" :> -300) @@ ("-5" :> -500) @@ ("0" :> 0) @@ ("5" :> 500) @@
    ("12" :> 1200) @@ ("13" :> 1300) @@ ("36" :> 3600) @@ ("37" :> 3700) @@
    ("100" :> 10000) @@ ("101" :> 10100) @@ ("20" :> 2000) @@ ("60" :> 6000) @@
    ("29.85" :> 2985) @@ ("1.9" :> 190)

\* pd.to_numeric(..., errors='coerce'): the value, or NaN when the cell does not parse.
to_numeric(cell) ==
    IF cell \in DOMAIN NumericLiteral
    THEN [nan |-> FALSE, val |-> NumericLiteral[cell]]
    ELSE [nan |-> TRUE, val |-> 0]

\* fillna(1): a cell that does not parse becomes 1.
fillna_one(x) == IF x.nan THEN 100 ELSE x.val

\* fillna(0)
fillna0(x) == IF x.nan THEN 0 ELSE x.val

\* astype(int) of a float: truncation toward zero (hundredths to units).
astype_int(h) == IF h >= 0 THEN h \div 100 ELSE -((-h) \div 100)

\* df['total_charges'].replace(' ', '0')
replace_space(cell) == IF cell = " " THEN "0" ELSE cell

coerce_tenure(cell) == astype_int(fillna0(to_numeric(cell)))
coerce_monthly(cell) == fillna0(to_numeric(cell))
coerce_total(cell) == fillna0(to_numeric(replace_space(cell)))

\* ------------------------------------------------------ cells and strings
\* pd.read_csv reads an empty cell (and the texts 'NaN', 'NA', ...) as NaN.
NullCell == "NaN"

\* str.title() of the gender cells of the model's inputs.
Title ==
    ("Female" :> "Female") @@ ("Male" :> "Male") @@ ("female" :> "Female") @@
    ("MALE" :> "Male")

\* Series.str.title(): a NaN cell stays NaN.
title(cell) == IF cell = NullCell THEN NullCell ELSE Title[cell]

\* The .str accessor of a column raises AttributeError when the column holds no
\* strings: read_csv gives a column whose cells are all empty the dtype float64
\* (a file without rows gives object columns).
str_accessor_raises(rows) ==
    /\ Len(rows) > 0
    /\ \A i \in 1..Len(rows) : rows[i].gender = NullCell

\* ------------------------------------------------------- boolean coercion
boolean_mapping ==
    ("Yes" :> "True") @@ ("No" :> "False") @@ ("No phone service" :> "False") @@
    ("No internet service" :> "False")

churn_mapping == ("Yes" :> "True") @@ ("No" :> "False")

\* Series.map(dict): a value that is no key of the dict becomes NaN; nothing raises.
map_values(cell, mapping) ==
    IF cell \in DOMAIN mapping THEN mapping[cell] ELSE "NaN"

\* --------------------------------------------------------- derived fields
\* np.where(tenure > 0, total_charges / tenure, monthly_charges)
avg_monthly_revenue(tenure, monthly, total) ==
    IF tenure > 0 THEN [num |-> total, den |-> tenure]
    ELSE [num |-> monthly, den |-> 1]

\* pd.cut(tenure, bins=[0, 12, 36, 100], labels=[...], include_lowest=True)
\* followed by astype(str): a tenure outside [0, 100] has no bin and becomes 'nan'.
customer_segment(tenure) ==
    IF 0 <= tenure /\ tenure <= 12 THEN "New"
    ELSE IF 12 < tenure /\ tenure <= 36 THEN "Growing"
    ELSE IF 36 < tenure /\ tenure <= 100 THEN "Loyal"
    ELSE "nan"

\* Steps 1-5 of clean_and_transform on one row (all of them are column-wise).
TransformRow(r) ==
    LET t == coerce_tenure(r.tenure)
        m == coerce_monthly(r.MonthlyCharges)
        c == coerce_total(r.TotalCharges)
    IN  [customer_id |-> r.customerID,
         gender |-> title(r.gender),
         tenure |-> t,
         monthly_charges |-> m,
         total_charges |-> c,
         partner |-> map_values(r.Partner, boolean_mapping),
         dependents |-> map_values(r.Dependents, boolean_mapping),
         phone_service |-> map_values(r.PhoneService, boolean_mapping),
         paperless_billing |-> map_values(r.PaperlessBilling, boolean_mapping),
         churned |-> map_values(r.Churn, churn_mapping),
         avg_monthly_revenue |-> avg_monthly_revenue(t, m, c),
         customer_segment |-> customer_segment(t)]

\* ------------------------------------------------------ data-quality gate
\* Series.duplicated(): row i is a duplicate when an earlier row has its id.
duplicated(rows) ==
    [i \in 1..Len(rows) |->
        \E j \in 1..(i - 1) : rows[j].customer_id = rows[i].customer_id]

\* drop_duplicates(subset=['customer_id'], keep='last')
drop_duplicates_keep_last(rows) ==
    SelectIdx(rows,
              [i \in 1..Len(rows) |->
                  ~\E j \in (i + 1)..Len(rows) :
                      rows[j].customer_id = rows[i].customer_id],
              1)

\* drop_duplicates(subset=['customer_id'], keep='first')
drop_duplicates(rows) ==
    SelectIdx(rows, [i \in 1..Len(rows) |-> ~duplicated(rows)[i]], 1)

\* df.loc[df['tenure'] < 0, 'tenure'] = 0
repair_tenure(rows) ==
    [i \in 1..Len(rows) |->
        IF rows[i].tenure < 0 THEN [rows[i] EXCEPT !.tenure = 0] ELSE rows[i]]

\* A range repair that leaves the charges as they are.
repair_charges_missing(rows) == rows

\* df.loc[df['monthly_charges'] < 0, 'monthly_charges'] = 0
repair_charges(rows) ==
    [i \in 1..Len(rows) |->
        IF rows[i].monthly_charges < 0
        THEN [rows[i] EXCEPT !.monthly_charges = 0] ELSE rows[i]]

NullCells(r) ==
    Cardinality({f \in {"customer_id", "gender", "partner", "dependents",
                        "phone_service", "paperless_billing", "churned"} :
                    r[f] = NullCell})

RECURSIVE SumNulls(_, _)
SumNulls(rows, i) ==
    IF i > Len(rows) THEN 0 ELSE NullCells(rows[i]) + SumNulls(rows, i + 1)

NoFrame == [cols |-> {}, rows |-> <<>>]
NoReport ==
    [initial_rows |-> 0, final_rows |-> 0, rows_removed |-> 0, null_values |-> 0,
     duplicates_found |-> 0, duplicate_customer_ids |-> 0,
     invalid_tenure |-> 0, invalid_charges |-> 0]

\* A clean_and_transform that counts the negative values before it removes the
\* duplicates: the rows it drops are counted too.
clean_and_transform_counts_before_dedup(df) ==
    LET cols == rename(df.cols) IN
    IF ~((CleanAccessed \ AccessedAfterTitle) \subseteq cols)
    THEN [ok |-> FALSE, error |-> "KeyError", df |-> NoFrame, report |-> NoReport]
    ELSE IF str_accessor_raises(df.rows)
    THEN [ok |-> FALSE, error |-> "AttributeError", df |-> NoFrame, report |-> NoReport]
    ELSE IF ~(CleanAccessed \subseteq cols)
    THEN [ok |-> FALSE, error |-> "KeyError", df |-> NoFrame, report |-> NoReport]
    ELSE
        LET derived == [i \in 1..Len(df.rows) |-> TransformRow(df.rows[i])]
            duplicates == CountIdx(duplicated(derived), 1)
            deduped == IF duplicates > 0 THEN drop_duplicates(derived) ELSE derived
            invalid_tenure ==
                CountIdx([i \in 1..Len(derived) |-> derived[i].tenure < 0], 1)
            invalid_charges ==
                CountIdx([i \in 1..Len(derived) |-> derived[i].monthly_charges < 0], 1)
            fixed_tenure ==
                IF invalid_tenure > 0 THEN repair_tenure(deduped) ELSE deduped
            final ==
                IF invalid_charges > 0 THEN repair_charges(fixed_tenure)
                ELSE fixed_tenure
        IN  [ok |-> TRUE,
             error |-> "none",
             df |-> [cols |-> (cols \ {"churn"}) \cup DerivedColumns, rows |-> final],
             report |->
                [initial_rows |-> Len(df.rows),
                 final_rows |-> Len(final),
                 rows_removed |-> Len(df.rows) - Len(final),
                 null_values |-> SumNulls(final, 1),
                 duplicates_found |-> duplicates,
                 duplicate_customer_ids |-> CountIdx(duplicated(final), 1),
                 invalid_tenure |-> invalid_tenure,
                 invalid_charges |-> invalid_charges]]

\* clean_and_transform(df): the cleaned frame and the logged summary; KeyError
\* when a column it reads is absent after the renaming, AttributeError when the
\* gender column holds no string.
clean_and_transform(df) ==
    LET cols == rename(df.cols) IN
    IF ~((CleanAccessed \ AccessedAfterTitle) \subseteq cols)
    THEN [ok |-> FALSE, error |-> "KeyError", df |-> NoFrame, report |-> NoReport]
    ELSE IF str_accessor_raises(df.rows)
    THEN [ok |-> FALSE, error |-> "AttributeError", df |-> NoFrame, report |-> NoReport]
    ELSE IF ~(CleanAccessed \subseteq cols)
    THEN [ok |-> FALSE, error |-> "KeyError", df |-> NoFrame, report |-> NoReport]
    ELSE
        LET derived == [i \in 1..Len(df.rows) |-> TransformRow(df.rows[i])]
            duplicates == CountIdx(duplicated(derived), 1)
            deduped == IF duplicates > 0 THEN drop_duplicates(derived) ELSE derived
            invalid_tenure ==
                CountIdx([i \in 1..Len(deduped) |-> deduped[i].tenure < 0], 1)
            invalid_charges ==
                CountIdx([i \in 1..Len(deduped) |-> deduped[i].monthly_charges < 0], 1)
            fixed_tenure ==
                IF invalid_tenure > 0 THEN repair_tenure(deduped) ELSE deduped
            final ==
                IF invalid_charges > 0 THEN repair_charges(fixed_tenure)
                ELSE fixed_tenure
        IN  [ok |-> TRUE,
             error |-> "none",
             df |-> [cols |-> (cols \ {"churn"}) \cup DerivedColumns, rows |-> final],
             report |->
                [initial_rows |-> Len(df.rows),
                 final_rows |-> Len(final),
                 rows_removed |-> Len(df.rows) - Len(final),
                 null_values |-> SumNulls(final, 1),
                 duplicates_found |-> duplicates,
                 duplicate_customer_ids |-> CountIdx(duplicated(final), 1),
                 invalid_tenure |-> invalid_tenure,
                 invalid_charges |-> invalid_charges]]

\* ------------------------------------------------------------- the inputs
BaseRow(id) ==
    [customerID |-> id, gender |-> "Female", tenure |-> "5", MonthlyCharges |-> "20",
     TotalCharges |-> "60", Partner |-> "Yes", Dependents |-> "No",
     PhoneService |-> "Yes", PaperlessBilling |-> "No", Churn |-> "No"]

\* Rows of one customer whose numeric cells vary in sign, and the base row of
\* the other.
NumericRows ==
    {[BaseRow("7590-VHVEG") EXCEPT !.tenure = t, !.MonthlyCharges = m] :
        t \in {"-3", "5"}, m \in {"-5", "20"}}
    \cup {BaseRow("5575-GNVDE")}

\* Rows at the segment boundaries, and with cells that do not parse.
SegmentRows ==
    {[BaseRow("7590-VHVEG") EXCEPT !.tenure = t] :
        t \in {"12", "13", "36", "37", "100", "101", "1.9", " ", "abc"}}

CoercionRows ==
    {[BaseRow("7590-VHVEG") EXCEPT !.tenure = "0", !.TotalCharges = " ",
                                    !.MonthlyCharges = "29.85"],
     [BaseRow("7590-VHVEG") EXCEPT !.MonthlyCharges = "abc"],
     [BaseRow("7590-VHVEG") EXCEPT !.TotalCharges = "abc"]}

BooleanFields == {"Partner", "Dependents", "PhoneService", "PaperlessBilling", "Churn"}
BoolCells == {"Yes", "No", "No phone service", "No internet service", "Maybe"}

\* Rows with one boolean cell set to each value, known or not.
BoolRows ==
    {[BaseRow("7590-VHVEG") EXCEPT ![f] = v] : f \in BooleanFields, v \in BoolCells}

\* Rows whose gender is written in another case.
GenderRows == {[BaseRow("7590-VHVEG") EXCEPT !.gender = g] : g \in {"female", "MALE"}}

\* Rows with one empty cell.
NullableFields ==
    {"customerID", "gender", "tenure", "MonthlyCharges", "TotalCharges"} \cup BooleanFields
NullRows == {[BaseRow("7590-VHVEG") EXCEPT ![f] = NullCell] : f \in NullableFields}

RECURSIVE Padded(_, _)
\* The row r after n - 1 base rows of the other customer.
Padded(r, n) ==
    IF n <= 1 THEN <<r>> ELSE <<BaseRow("5575-GNVDE")>> \o Padded(r, n - 1)

DataInputs ==
    SeqsUpTo(NumericRows, MaxRows)
    \cup {Padded(r, n) : r \in SegmentRows \cup CoercionRows \cup BoolRows
                                  \cup GenderRows \cup NullRows,
                         n \in 1..MaxRows}

BaseInput == <<BaseRow("7590-VHVEG"), BaseRow("5575-GNVDE")>>

\* The raw file: its header and its rows.  Every column present, one absent, or
\* one under its canonical name in place of the raw one.
Headers ==
    {RawColumns} \cup {RawColumns \ {c} : c \in RawColumns}
    \cup {(RawColumns \ {c}) \cup {column_mapping[c]} : c \in RawColumns}

\* A chunk of gold_models.sql between two semicolons: a statement, a comment, or
\* a comment line followed by a statement.
StmtKinds == {"sql", "comment", "comment_sql"}

\* statement.startswith('--'): the chunk is a comment, or a comment line followed
\* by a statement.
starts_with_comment(chunk) == chunk \in {"comment", "comment_sql"}
Scripts == SeqsUpTo(StmtKinds, MaxStmts)

\* The runs explored: every data input with the full header and a one-statement
\* script; the base rows under every header; the base rows under every script.
Inputs ==
    {[cols |-> RawColumns, rows |-> d, script |-> <<"sql">>] : d \in DataInputs}
    \cup {[cols |-> h, rows |-> BaseInput, script |-> <<"sql">>] : h \in Headers}
    \cup {[cols |-> RawColumns, rows |-> BaseInput, script |-> s] : s \in Scripts}

\* ------------------------------------------------------------ store errors
\* An error message is its words; str(e).lower() lowers each of them.
Lower ==
    ("relation" :> "relation") @@ ("Relation" :> "relation") @@
    ("already" :> "already") @@ ("ALREADY" :> "already") @@
    ("exists" :> "exists") @@ ("EXISTS" :> "exists") @@
    ("table" :> "table") @@ ("does" :> "does") @@ ("not" :> "not") @@
    ("exist" :> "exist") @@ ("syntax" :> "syntax") @@ ("error" :> "error") @@
    ("operator" :> "operator") @@ ("connection" :> "connection") @@
    ("lost" :> "lost")

lower(msg) == [i \in 1..Len(msg) |-> Lower[msg[i]]]

\* pattern in text, for sequences of words
contains(text, pattern) ==
    \E i \in 0..(Len(text) - Len(pattern)) :
        \A j \in 1..Len(pattern) : text[i + j] = pattern[j]

MsgAlreadyExists == <<"relation", "already", "exists">>
MsgAlreadyExistsUpper == <<"Relation", "ALREADY", "EXISTS">>
MsgDoesNotExist == <<"table", "does", "not", "exist">>
MsgSyntaxError == <<"syntax", "error">>
MsgOperatorDoesNotExist == <<"operator", "does", "not", "exist">>
MsgConnectionLost == <<"connection", "lost">>
StoreErrors ==
    {MsgAlreadyExists, MsgAlreadyExistsUpper, MsgDoesNotExist, MsgSyntaxError,
     MsgConnectionLost}

\* The test of build_gold_models' except clause: the error is expected.
is_expected_error(msg) ==
    ~(~contains(lower(msg), <<"does", "not", "exist">>)
      /\ ~contains(lower(msg), <<"already", "exists">>))

\* ---------------------------------------------------------------- state
VARIABLES
    raw,         \* the raw file: [cols, rows]
    script,      \* the chunks of gold_models.sql
    runs,        \* runs of run_pipeline started so far
    clock,       \* the wall clock
    pc,          \* where the current run is
    started,     \* the stages the current run started, in order
    completed,   \* the stages the current run completed
    result,      \* what run_pipeline returned: "none", "True", "False"
    df,          \* the frame clean_and_transform returned
    report,      \* the transformation summary it logged
    silver,      \* silver.customers_staging: [exists, cols, rows]
    validation,  \* the counts validate_silver_data read back
    storeLog,    \* the store operations of the current run, in order
    stmtIdx,     \* build_gold_models: the index of the next chunk
    execLog,     \* build_gold_models: the chunks executed, with their outcome
    goldSteps,   \* modeling.main: the steps after build_gold_models that ran
    history,     \* per finished run: its result and the staging table it left
    raised,      \* the exception the current run raised: [type, msg]
    gold,        \* the statements of the script whose transaction committed, in order
    txn,         \* the transaction of to_sql's inserts: [phase, previous, frame, inserted]
    observed     \* what another session read from the staging table last

vars ==
    <<raw, script, runs, clock, pc, started, completed, result, df, report, silver,
      validation, storeLog, stmtIdx, execLog, goldSteps, history, raised, gold,
      txn, observed>>

inputVars == <<raw, script>>
transVars == <<df, report, silver, validation, storeLog>>
goldVars == <<stmtIdx, execLog, goldSteps, gold>>
readerVars == <<txn, observed>>

\* A table of the store: whether it exists, its columns, the SQL type of its
\* column churned, and its rows.
NoTable == [exists |-> FALSE, cols |-> {}, churned_type |-> "none", rows |-> <<>>]
NoValidation ==
    [total_records |-> 0, unique_customers |-> 0, churned_count |-> 0, null_check |-> 0,
     segment_distribution |-> {}]

\* Exceptions: their type and, for an error of the store, the words of its message.
NoError == [type |-> "none", msg |-> <<>>]
Error(type) == [type |-> type, msg |-> <<>>]
StoreError(msg) == [type |-> "SQLAlchemyError", msg |-> msg]

NoTxn ==
    [phase |-> "none", autocommit |-> FALSE, previous |-> NoTable, frame |-> NoFrame,
     inserted |-> 0]
NoObservation == [read |-> FALSE, table |-> NoTable, previous |-> NoTable, new |-> NoTable]

Init ==
    /\ \E in \in Inputs :
        /\ raw = [cols |-> in.cols, rows |-> in.rows]
        /\ script = in.script
    /\ runs = 0
    /\ clock = 0
    /\ pc = "idle"
    /\ started = <<>>
    /\ completed = {}
    /\ result = "none"
    /\ df = NoFrame
    /\ report = NoReport
    /\ silver = NoTable
    /\ validation = NoValidation
    /\ storeLog = <<>>
    /\ stmtIdx = 1
    /\ execLog = <<>>
    /\ goldSteps = <<>>
    /\ history = <<>>
    /\ raised = NoError
    /\ gold = <<>>
    /\ txn = NoTxn
    /\ observed = NoObservation

\* ------------------------------------------------------- pipeline runner
Stages == <<"ingestion", "transformation", "modeling">>

\* run_pipeline's except clause: the run is over and returns False.
run_pipeline_except ==
    /\ pc' = "failed"
    /\ result' = "False"
    /\ history' = Append(history, [result |-> "False", silver |-> silver'])

\* A stage whose except clause logs the error and does not re-raise: run_pipeline
\* goes on to the next stage.
StageRaises_swallowed ==
    IF Len(started) < Len(Stages)
    THEN /\ started' = Append(started, Stages[Len(started) + 1])
         /\ pc' = (IF Len(started) = 1 THEN "t_read" ELSE "m_read")
         /\ UNCHANGED <<completed, result, history>>
    ELSE /\ run_pipeline_except
         /\ UNCHANGED <<started, completed>>

\* A stage's main() raised: it re-raises, nothing of the run after it executes.
StageRaises ==
    /\ run_pipeline_except
    /\ UNCHANGED <<started, completed>>

\* A stage's main() returned: run_pipeline starts the next stage.
StageReturns(stage, next, nextpc) ==
    /\ completed' = completed \cup {stage}
    /\ started' = Append(started, next)
    /\ pc' = nextpc
    /\ UNCHANGED <<result, history>>

\* modeling.main() returned: run_pipeline returns True.
run_pipeline_success ==
    /\ completed' = completed \cup {"modeling"}
    /\ pc' = "succeeded"
    /\ result' = "True"
    /\ history' = Append(history, [result |-> "True", silver |-> silver'])
    /\ UNCHANGED started

\* run_pipeline is entered (a new run starts from nothing) and starts stage 1.
StartRun ==
    /\ pc \in {"idle", "succeeded", "failed"}
    /\ runs < MaxRuns
    /\ runs' = runs + 1
    /\ clock' = clock + 1
    /\ pc' = "ingest"
    /\ started' = <<"ingestion">>
    /\ completed' = {}
    /\ result' = "none"
    /\ df' = NoFrame
    /\ report' = NoReport
    /\ validation' = NoValidation
    /\ storeLog' = <<>>
    /\ stmtIdx' = 1
    /\ execLog' = <<>>
    /\ goldSteps' = <<>>
    /\ raised' = NoError
    /\ gold' = <<>>
    /\ txn' = NoTxn
    /\ observed' = NoObservation
    /\ UNCHANGED <<inputVars, silver, history>>

\* ingestion.main(): the download and its validation succeed, or raise.
IngestionMain ==
    /\ pc = "ingest"
    /\ UNCHANGED <<inputVars, runs, clock, transVars, goldVars, readerVars>>
    /\ \/ StageReturns("ingestion", "transformation", "t_read") /\ UNCHANGED raised
       \/ StageRaises /\ raised' = Error("Exception")

\* ------------------------------------------------------ transformation.main
\* What silver_staging.sql leaves when it runs without error: the table exists.
silver_staging_sql(table) ==
    IF table.exists THEN table
    ELSE [exists |-> TRUE, cols |-> column_order, churned_type |-> "BOOLEAN",
          rows |-> <<>>]

\* A main that runs the staging script before it reads the file.
ReadBronzeData_store_first ==
    /\ pc = "t_read"
    /\ UNCHANGED <<inputVars, runs, clock, df, report, validation, goldVars, readerVars>>
    /\ storeLog' = Append(storeLog, "silver_staging.sql")
    /\ silver' = silver_staging_sql(silver)
    /\ \/ pc' = "t_clean" /\ UNCHANGED <<started, completed, result, history, raised>>
       \/ StageRaises /\ raised' = Error("FileNotFoundError")

\* read_bronze_data(): the file is read, or is missing or unreadable.
ReadBronzeData ==
    /\ pc = "t_read"
    /\ UNCHANGED <<inputVars, runs, clock, transVars, goldVars, readerVars>>
    /\ \/ pc' = "t_clean" /\ UNCHANGED <<started, completed, result, history, raised>>
       \/ StageRaises /\ raised' = Error("FileNotFoundError")

CleanAndTransform ==
    /\ pc = "t_clean"
    /\ UNCHANGED <<inputVars, runs, clock, silver, validation, storeLog, goldVars,
                   readerVars>>
    /\ LET out == clean_and_transform(raw) IN
        IF out.ok
        THEN /\ df' = out.df
             /\ report' = out.report
             /\ pc' = "t_create"
             /\ UNCHANGED <<started, completed, result, history, raised>>
        ELSE /\ StageRaises
             /\ raised' = Error(out.error)
             /\ UNCHANGED <<df, report>>

\* create_silver_table(engine): the script file is read (or is missing) and
\* executed in one transaction; an error of the store, whatever its message, is
\* not caught.
CreateSilverTable ==
    /\ pc = "t_create"
    /\ UNCHANGED <<inputVars, runs, clock, df, report, validation, goldVars, readerVars>>
    /\ \/ /\ UNCHANGED <<silver, storeLog>>
          /\ StageRaises
          /\ raised' = Error("FileNotFoundError")
       \/ /\ storeLog' = Append(storeLog, "silver_staging.sql")
          /\ silver' = silver_staging_sql(silver)
          /\ pc' = "t_load"
          /\ UNCHANGED <<started, completed, result, history, raised>>
       \/ \E msg \in StoreErrors :
          /\ storeLog' = Append(storeLog, "silver_staging.sql")
          /\ contains(lower(msg), <<"already", "exists">>) => silver.exists
          /\ UNCHANGED silver
          /\ StageRaises
          /\ raised' = StoreError(msg)

\* df['ingestion_timestamp'] = datetime.now()
add_timestamp(frame, now) ==
    [cols |-> frame.cols \cup {"ingestion_timestamp"},
     rows |-> [i \in 1..Len(frame.rows) |->
                 [customer_id |-> frame.rows[i].customer_id,
                  gender |-> frame.rows[i].gender,
                  tenure |-> frame.rows[i].tenure,
                  monthly_charges |-> frame.rows[i].monthly_charges,
                  total_charges |-> frame.rows[i].total_charges,
                  partner |-> frame.rows[i].partner,
                  dependents |-> frame.rows[i].dependents,
                  phone_service |-> frame.rows[i].phone_service,
                  paperless_billing |-> frame.rows[i].paperless_billing,
                  churned |-> frame.rows[i].churned,
                  avg_monthly_revenue |-> frame.rows[i].avg_monthly_revenue,
                  customer_segment |-> frame.rows[i].customer_segment,
                  ingestion_timestamp |-> now]]]

\* df = df[column_order]: the listed columns, or KeyError when one is absent.
select_columns(frame) ==
    [ok |-> column_order \subseteq frame.cols,
     frame |-> [cols |-> frame.cols \cap column_order, rows |-> frame.rows]]

\* The SQL type to_sql gives the column churned: BOOLEAN when the column holds a
\* boolean (or the frame has no rows: the mapped column is then of dtype bool),
\* TEXT when every cell of it is NaN.
churned_sql_type(rows) ==
    IF rows # <<>> /\ \A i \in 1..Len(rows) : rows[i].churned = NullCell
    THEN "TEXT" ELSE "BOOLEAN"

\* The table to_sql creates from the frame, before the inserts.
created_table(frame) ==
    [exists |-> TRUE, cols |-> frame.cols,
     churned_type |-> churned_sql_type(frame.rows), rows |-> <<>>]

\* to_sql with if_exists='append': the rows are added to those of the table.
to_sql_append(table, frame) ==
    [created_table(frame) EXCEPT !.rows = table.rows \o frame.rows]

\* DataFrame.to_sql(..., if_exists='replace'): the table is dropped, created
\* from the frame and filled with its rows.
to_sql(table, frame) ==
    [created_table(frame) EXCEPT !.rows = frame.rows]

\* What the store raises while to_sql waits on it.
ToSqlErrors == {MsgSyntaxError, MsgConnectionLost}

\* to_sql(..., chunksize=1000)
chunksize == 1000

\* The rows of the frame that to_sql's insert loop has sent after one more chunk.
next_chunk_end(inserted, nrows) ==
    IF inserted + chunksize < nrows THEN inserted + chunksize ELSE nrows

\* load_to_silver(df, engine) up to to_sql's first statement: the timestamp is
\* written into the frame of the caller, the columns are selected, and to_sql
\* drops the table.  The drop is committed at once (pandas 1: other sessions
\* find no table) or is part of the transaction of the inserts (pandas 2: they
\* still read the table as it was); the code does not pin the version.
ToSqlBegin ==
    /\ pc = "t_load"
    /\ UNCHANGED <<inputVars, runs, clock, report, validation, goldVars, observed>>
    /\ df' = add_timestamp(df, clock)
    /\ LET selected == select_columns(add_timestamp(df, clock)) IN
        IF ~selected.ok
        THEN /\ UNCHANGED <<silver, storeLog, txn>>
             /\ StageRaises
             /\ raised' = Error("KeyError")
        ELSE /\ storeLog' = Append(storeLog, "to_sql")
             /\ \/ /\ \E autocommit \in BOOLEAN :
                        /\ txn' = [phase |-> "open", autocommit |-> autocommit,
                                   previous |-> silver, frame |-> selected.frame,
                                   inserted |-> 0]
                        /\ silver' = IF autocommit THEN NoTable ELSE silver
                   /\ pc' = "t_recreate"
                   /\ UNCHANGED <<started, completed, result, history, raised>>
                \/ /\ UNCHANGED silver
                   /\ txn' = [phase |-> "failed", autocommit |-> FALSE,
                              previous |-> silver, frame |-> selected.frame,
                              inserted |-> 0]
                   /\ StageRaises
                   /\ \E msg \in ToSqlErrors : raised' = StoreError(msg)

\* to_sql creates the table from the frame (committed at once or part of the
\* transaction, as the drop was), or the store raises.
ToSqlCreate ==
    /\ pc = "t_recreate"
    /\ UNCHANGED <<inputVars, runs, clock, df, report, validation, storeLog, goldVars,
                   observed>>
    /\ \/ /\ silver' = IF txn.autocommit THEN created_table(txn.frame) ELSE silver
          /\ pc' = "t_insert"
          /\ UNCHANGED <<started, completed, result, history, raised, txn>>
       \/ /\ UNCHANGED silver
          /\ txn' = [txn EXCEPT !.phase = "failed"]
          /\ StageRaises
          /\ \E msg \in ToSqlErrors : raised' = StoreError(msg)

\* One turn of to_sql's insert loop: the next chunk is sent inside the open
\* transaction, or the store raises and the transaction is rolled back.
ToSqlInsertChunk ==
    /\ pc = "t_insert"
    /\ txn.inserted < Len(txn.frame.rows)
    /\ UNCHANGED <<inputVars, runs, clock, df, report, silver, validation, storeLog,
                   goldVars, observed>>
    /\ \/ /\ txn' = [txn EXCEPT
                        !.inserted = next_chunk_end(txn.inserted, Len(txn.frame.rows))]
          /\ UNCHANGED <<pc, started, completed, result, history, raised>>
       \/ /\ txn' = [txn EXCEPT !.phase = "failed"]
          /\ StageRaises
          /\ \E msg \in ToSqlErrors : raised' = StoreError(msg)

\* Every chunk was sent: the transaction commits and to_sql returns, or the
\* commit raises and the transaction is rolled back.
ToSqlCommit ==
    /\ pc = "t_insert"
    /\ txn.inserted = Len(txn.frame.rows)
    /\ UNCHANGED <<inputVars, runs, clock, df, report, validation, storeLog, goldVars,
                   observed>>
    /\ \/ /\ silver' = to_sql(silver, txn.frame)
          /\ txn' = [txn EXCEPT !.phase = "done"]
          /\ pc' = "t_validate"
          /\ UNCHANGED <<started, completed, result, history, raised>>
       \/ /\ UNCHANGED silver
          /\ txn' = [txn EXCEPT !.phase = "failed"]
          /\ StageRaises
          /\ \E msg \in ToSqlErrors : raised' = StoreError(msg)

\* The keys of validate_silver_data's validation_queries, in the order of the dict.
QueryKeys ==
    <<"total_records", "unique_customers", "churned_count", "null_check",
      "segment_distribution">>

\* What a query of validation_queries raises on the table, <<>> when it raises
\* nothing: the table is absent, or churned = TRUE compares a column that is
\* not BOOLEAN.
query_error(key, table) ==
    IF ~table.exists THEN MsgDoesNotExist
    ELSE IF key = "churned_count" /\ table.churned_type # "BOOLEAN"
    THEN MsgOperatorDoesNotExist
    ELSE <<>>

\* What a query of validation_queries returns: COUNT(DISTINCT customer_id) skips
\* NULL; the segment distribution is the rows of the GROUP BY (the store orders
\* them by its collation).
query_result(key, table) ==
    LET n == Len(table.rows) IN
    CASE key = "total_records" -> n
      [] key = "unique_customers" ->
            Cardinality({table.rows[i].customer_id : i \in 1..n} \ {NullCell})
      [] key = "churned_count" ->
            CountIdx([i \in 1..n |-> table.rows[i].churned = "True"], 1)
      [] key = "null_check" ->
            CountIdx([i \in 1..n |-> table.rows[i].customer_id = NullCell], 1)
      [] key = "segment_distribution" ->
            {[customer_segment |-> seg,
              count |-> CountIdx([i \in 1..n |-> table.rows[i].customer_segment = seg], 1)] :
                seg \in {table.rows[i].customer_segment : i \in 1..n}}

\* The churn rate validate_silver_data logs divides by total_records
\* (ZeroDivisionError on an empty table).
validate_silver_data_raises(results) == results.total_records = 0

\* Where validate_silver_data is before each of its queries.
QueryPc == <<"t_validate", "t_query2", "t_query3", "t_query4", "t_query5">>

\* What conn.execute raises at a query: the error of the query on the table as
\* it is, or the loss of the connection.
QueryRaises(key, table) == ({query_error(key, table)} \ {<<>>}) \cup {MsgConnectionLost}

\* validate_silver_data(engine), one turn of its loop: the query runs on the
\* table as it is then, and what it raises ends the stage; after the last one
\* the counts are logged (the division), written to validation_results.json
\* (the write can raise) and returned.  Nothing is compared with the frame that
\* was loaded.
ValidateQuery ==
    \E k \in 1..Len(QueryKeys) :
        /\ pc = QueryPc[k]
        /\ UNCHANGED <<inputVars, runs, clock, df, report, silver, goldVars, readerVars>>
        /\ storeLog' = IF k = 1 THEN Append(storeLog, "validation_queries") ELSE storeLog
        /\ \/ /\ UNCHANGED validation
              /\ StageRaises
              /\ \E msg \in QueryRaises(QueryKeys[k], silver) : raised' = StoreError(msg)
           \/ /\ query_error(QueryKeys[k], silver) = <<>>
              /\ validation' =
                    [validation EXCEPT ![QueryKeys[k]] = query_result(QueryKeys[k], silver)]
              /\ IF k < Len(QueryKeys)
                 THEN /\ pc' = QueryPc[k + 1]
                      /\ UNCHANGED <<started, completed, result, history, raised>>
                 ELSE IF validate_silver_data_raises(validation')
                 THEN StageRaises /\ raised' = Error("ZeroDivisionError")
                 ELSE \/ /\ StageReturns("transformation", "modeling", "m_read")
                         /\ UNCHANGED raised
                      \/ StageRaises /\ raised' = Error("OSError")

\* ------------------------------------------------------------ modeling.main
\* build_gold_models up to its loop: gold_models.sql is read, or is missing.
ReadGoldScript ==
    /\ pc = "m_read"
    /\ UNCHANGED <<inputVars, runs, clock, transVars, goldVars, readerVars>>
    /\ \/ pc' = "m_build" /\ UNCHANGED <<started, completed, result, history, raised>>
       \/ StageRaises /\ raised' = Error("FileNotFoundError")

\* A build_gold_models that runs the whole script in one transaction: an error
\* that is re-raised rolls back the statements executed before it.
BuildGoldStatement_one_transaction ==
    /\ pc = "m_build"
    /\ UNCHANGED <<inputVars, runs, clock, transVars, goldSteps, readerVars>>
    /\ stmtIdx <= Len(script)
    /\ \/ /\ starts_with_comment(script[stmtIdx])
          /\ stmtIdx' = stmtIdx + 1
          /\ UNCHANGED <<pc, started, completed, result, history, execLog, raised, gold>>
       \/ /\ ~starts_with_comment(script[stmtIdx])
          /\ execLog' = Append(execLog, [stmt |-> stmtIdx, error |-> <<>>])
          /\ gold' = Append(gold, stmtIdx)
          /\ stmtIdx' = stmtIdx + 1
          /\ UNCHANGED <<pc, started, completed, result, history, raised>>
       \/ /\ ~starts_with_comment(script[stmtIdx])
          /\ \E msg \in StoreErrors :
             /\ execLog' = Append(execLog, [stmt |-> stmtIdx, error |-> msg])
             /\ IF is_expected_error(msg)
                THEN /\ stmtIdx' = stmtIdx + 1
                     /\ UNCHANGED <<pc, started, completed, result, history, raised, gold>>
                ELSE /\ gold' = <<>>
                     /\ StageRaises
                     /\ raised' = StoreError(msg)
                     /\ UNCHANGED stmtIdx

\* One turn of build_gold_models' loop: a chunk that starts with "--" is skipped;
\* any other is executed in a transaction of its own; an expected error is
\* swallowed, any other is re-raised.
BuildGoldStatement ==
    /\ pc = "m_build"
    /\ UNCHANGED <<inputVars, runs, clock, transVars, goldSteps, readerVars>>
    /\ stmtIdx <= Len(script)
    /\ \/ /\ starts_with_comment(script[stmtIdx])
          /\ stmtIdx' = stmtIdx + 1
          /\ UNCHANGED <<pc, started, completed, result, history, execLog, raised, gold>>
       \/ /\ ~starts_with_comment(script[stmtIdx])
          /\ execLog' = Append(execLog, [stmt |-> stmtIdx, error |-> <<>>])
          /\ gold' = Append(gold, stmtIdx)
          /\ stmtIdx' = stmtIdx + 1
          /\ UNCHANGED <<pc, started, completed, result, history, raised>>
       \/ /\ ~starts_with_comment(script[stmtIdx])
          /\ \E msg \in StoreErrors :
             /\ execLog' = Append(execLog, [stmt |-> stmtIdx, error |-> msg])
             /\ UNCHANGED gold
             /\ IF is_expected_error(msg)
                THEN /\ stmtIdx' = stmtIdx + 1
                     /\ UNCHANGED <<pc, started, completed, result, history, raised>>
                ELSE /\ StageRaises
                     /\ raised' = StoreError(msg)
                     /\ UNCHANGED stmtIdx

\* The loop is over: build_gold_models returns.
BuildGoldDone ==
    /\ pc = "m_build"
    /\ stmtIdx > Len(script)
    /\ pc' = "m_validate"
    /\ UNCHANGED <<inputVars, runs, clock, started, completed, result, history,
                   transVars, goldVars, raised, readerVars>>

\* validate_gold_models(engine): the gold tables are read, or a query raises.
ValidateGoldModels ==
    /\ pc = "m_validate"
    /\ UNCHANGED <<inputVars, runs, clock, transVars, stmtIdx, execLog, gold, readerVars>>
    /\ goldSteps' = Append(goldSteps, "validate_gold_models")
    /\ \/ pc' = "m_insights" /\ UNCHANGED <<started, completed, result, history, raised>>
       \/ StageRaises /\ raised' = Error("Exception")

\* generate_insights(results)
GenerateInsights ==
    /\ pc = "m_insights"
    /\ UNCHANGED <<inputVars, runs, clock, transVars, stmtIdx, execLog, gold, readerVars>>
    /\ goldSteps' = Append(goldSteps, "generate_insights")
    /\ \/ pc' = "m_save" /\ UNCHANGED <<started, completed, result, history, raised>>
       \/ StageRaises /\ raised' = Error("Exception")

\* save_results(results), then modeling.main returns.
SaveResults ==
    /\ pc = "m_save"
    /\ UNCHANGED <<inputVars, runs, clock, transVars, stmtIdx, execLog, gold, readerVars>>
    /\ goldSteps' = Append(goldSteps, "save_results")
    /\ \/ run_pipeline_success /\ UNCHANGED raised
       \/ StageRaises /\ raised' = Error("Exception")

Next ==
    \/ StartRun
    \/ IngestionMain
    \/ ReadBronzeData
    \/ CleanAndTransform
    \/ CreateSilverTable
    \/ ToSqlBegin
    \/ ToSqlCreate
    \/ ToSqlInsertChunk
    \/ ToSqlCommit
    \/ ValidateQuery
    \/ ReadGoldScript
    \/ BuildGoldStatement
    \/ BuildGoldDone
    \/ ValidateGoldModels
    \/ GenerateInsights
    \/ SaveResults

Spec == Init /\ [][Next]_vars

\* --------------------------------------------- a store that loses rows
\* The store loses rows of the staging table between the load and the end of the
\* read-back (a partial or corrupted write, or another session's delete).
StoreLosesRows ==
    /\ pc \in Range(QueryPc)
    /\ Len(silver.rows) = Len(df.rows)
    /\ \E k \in 0..(Len(silver.rows) - 1) :
        silver' = [silver EXCEPT !.rows = SubSeq(silver.rows, 1, k)]
    /\ UNCHANGED <<inputVars, runs, clock, pc, started, completed, result, df, report,
                   validation, storeLog, goldVars, history, raised, readerVars>>

NextStoreFault ==
    \/ StartRun
    \/ IngestionMain
    \/ ReadBronzeData
    \/ CleanAndTransform
    \/ CreateSilverTable
    \/ ToSqlBegin
    \/ ToSqlCreate
    \/ ToSqlInsertChunk
    \/ ToSqlCommit
    \/ ValidateQuery
    \/ StoreLosesRows
    \/ ReadGoldScript
    \/ BuildGoldStatement
    \/ BuildGoldDone
    \/ ValidateGoldModels
    \/ GenerateInsights
    \/ SaveResults

SpecStoreFault == Init /\ [][NextStoreFault]_vars

\* ------------------------------------- another session reads the table
\* Another session selects from silver.customers_staging while to_sql is at work
\* or has just ended: it reads what is committed.
ReaderReads ==
    /\ \/ pc \in {"t_recreate", "t_insert", "t_validate"}
       \/ pc = "failed" /\ txn.phase = "failed"
    /\ observed' = [read |-> TRUE, table |-> silver, previous |-> txn.previous,
                    new |-> to_sql(txn.previous, txn.frame)]
    /\ UNCHANGED <<inputVars, runs, clock, pc, started, completed, result, history,
                   transVars, goldVars, raised, txn>>

NextReader ==
    \/ StartRun
    \/ IngestionMain
    \/ ReadBronzeData
    \/ CleanAndTransform
    \/ CreateSilverTable
    \/ ToSqlBegin
    \/ ToSqlCreate
    \/ ToSqlInsertChunk
    \/ ToSqlCommit
    \/ ReaderReads
    \/ ValidateQuery
    \/ ReadGoldScript
    \/ BuildGoldStatement
    \/ BuildGoldDone
    \/ ValidateGoldModels
    \/ GenerateInsights
    \/ SaveResults

SpecReader == Init /\ [][NextReader]_vars

\* ================================================================ claims
\* clean_and_transform has returned in the current run.
Cleaned == df.cols # {}

\* The rows of the final staged set: the frame returned by clean_and_transform
\* and the rows of silver.customers_staging.
StagedRows == Range(df.rows) \cup Range(silver.rows)

\* The first raw row, in file order, with the given customerID.
FirstRawRow(id) ==
    raw.rows[CHOOSE k \in 1..Len(raw.rows) :
                /\ raw.rows[k].customerID = id
                /\ \A j \in 1..(k - 1) : raw.rows[j].customerID # id]

Max0(x) == IF x < 0 THEN 0 ELSE x

\* Equality of two fractions [num, den].
RatEq(a, b) == a.num * b.den = b.num * a.den

\* ------------------------------------------------------------------- C1
C1_Order ==
    /\ Len(started) <= Len(Stages)
    /\ \A i \in 1..Len(started) : started[i] = Stages[i]
    /\ \A i \in 2..Len(started) : Stages[i - 1] \in completed
    /\ completed \subseteq Range(started)
    /\ pc = "failed" =>
          /\ result = "False"
          /\ started # <<>>
          /\ Stages[Len(started)] \notin completed
    /\ result = "True" <=> pc = "succeeded"
    /\ pc = "succeeded" => completed = Range(Stages)
    /\ result = "False" <=> pc = "failed"

C1_Step ==
    /\ runs' = runs =>
          \/ started' = started
          \/ /\ Len(started) < Len(Stages)
             /\ started' = Append(started, Stages[Len(started) + 1])
             /\ Stages[Len(started)] \in completed'
             /\ pc # "failed"
    /\ pc \in {"failed", "succeeded"} => runs' = runs + 1 /\ pc' = "ingest"

\* C1: in every run of run_pipeline the stages start in the order ingestion,
\* transformation, modeling, each at most once and only after the stage before
\* it completed; once a stage raised, the run is Failed (it returned False) and
\* no later stage is started in it; the run returns True only when all three
\* stages completed.
C1_ShortCircuit == [](C1_Order) /\ [][C1_Step]_vars

\* transformation.main raised: modeling was never started and the run returned False.
C1_Witness ==
    /\ pc = "failed"
    /\ started = <<"ingestion", "transformation">>
    /\ completed = {"ingestion"}
    /\ result = "False"

\* ------------------------------------------------------------------- C2
\* C2: the frame returned by clean_and_transform holds no two records with the
\* same customer_id, it holds a record for every customerID of the raw file, and
\* the record kept for an id is the one made from the first raw row with that id.
C2_UniqueKeepFirst ==
    Cleaned =>
        /\ \A i, j \in 1..Len(df.rows) :
              i # j => df.rows[i].customer_id # df.rows[j].customer_id
        /\ {df.rows[i].customer_id : i \in 1..Len(df.rows)}
              = {raw.rows[k].customerID : k \in 1..Len(raw.rows)}
        /\ \A i \in 1..Len(df.rows) :
              LET r == df.rows[i]
                  src == TransformRow(FirstRawRow(r.customer_id))
              IN  /\ r.tenure = Max0(src.tenure)
                  /\ r.monthly_charges = Max0(src.monthly_charges)
                  /\ r.total_charges = src.total_charges
                  /\ r.avg_monthly_revenue = src.avg_monthly_revenue
                  /\ r.customer_segment = src.customer_segment
                  /\ r.partner = src.partner
                  /\ r.churned = src.churned

\* Two raw rows that differ share an id, and one record was returned.
C2_Witness ==
    /\ Cleaned
    /\ Len(raw.rows) = 2
    /\ raw.rows[1].customerID = raw.rows[2].customerID
    /\ raw.rows[1].tenure # raw.rows[2].tenure
    /\ Len(df.rows) = 1
    /\ df.rows[1].tenure = Max0(coerce_tenure(raw.rows[1].tenure))

\* ------------------------------------------------------------------- C3
NegativeTenureCells == {"-3"}
NegativeChargeCells == {"-5"}

\* C3: every record returned by clean_and_transform has tenure >= 0 and
\* monthly_charges >= 0; a raw row with a negative tenure or MonthlyCharges (the
\* first of its id) is kept, with that field 0, and no row is discarded for its sign.
C3_RangeRepair ==
    Cleaned =>
        /\ \A i \in 1..Len(df.rows) :
              df.rows[i].tenure >= 0 /\ df.rows[i].monthly_charges >= 0
        /\ Len(df.rows) = Cardinality({raw.rows[k].customerID : k \in 1..Len(raw.rows)})
        /\ \A k \in 1..Len(raw.rows) :
              raw.rows[k] = FirstRawRow(raw.rows[k].customerID) =>
                 \E i \in 1..Len(df.rows) :
                    /\ df.rows[i].customer_id = raw.rows[k].customerID
                    /\ raw.rows[k].tenure \in NegativeTenureCells
                          => df.rows[i].tenure = 0
                    /\ raw.rows[k].MonthlyCharges \in NegativeChargeCells
                          => df.rows[i].monthly_charges = 0

\* A raw row with tenure -3 and MonthlyCharges -5 was kept with both set to 0.
C3_Witness ==
    /\ Cleaned
    /\ \E k \in 1..Len(raw.rows) :
        /\ raw.rows[k].tenure = "-3"
        /\ raw.rows[k].MonthlyCharges = "-5"
        /\ raw.rows[k] = FirstRawRow(raw.rows[k].customerID)
        /\ \E i \in 1..Len(df.rows) :
            /\ df.rows[i].customer_id = raw.rows[k].customerID
            /\ df.rows[i].tenure = 0
            /\ df.rows[i].monthly_charges = 0

\* ------------------------------------------------------------------- C4
\* C4: for every record of the final staged set, avg_monthly_revenue equals the
\* staged monthly_charges when the staged tenure is 0, and the staged
\* total_charges divided by the staged tenure otherwise, also for records whose
\* raw tenure or MonthlyCharges was negative and was repaired.
C4_AvgRevenueOfStaged ==
    \A r \in StagedRows :
        IF r.tenure = 0
        THEN RatEq(r.avg_monthly_revenue, [num |-> r.monthly_charges, den |-> 1])
        ELSE RatEq(r.avg_monthly_revenue, [num |-> r.total_charges, den |-> r.tenure])

\* ------------------------------------------------------------------- C5
Segments == {"New", "Growing", "Loyal"}

\* C5: for every record of the final staged set, customer_segment is 'New' when
\* the staged tenure is in [0,12], 'Growing' when it is in (12,36] and 'Loyal'
\* when it is above 36, with no upper bound: always one of the three.
C5_SegmentOfStaged ==
    \A r \in StagedRows :
        /\ r.customer_segment \in Segments
        /\ (0 <= r.tenure /\ r.tenure <= 12) => r.customer_segment = "New"
        /\ (12 < r.tenure /\ r.tenure <= 36) => r.customer_segment = "Growing"
        /\ 36 < r.tenure => r.customer_segment = "Loyal"

\* ------------------------------------------------------------------- C6
\* The records of a table without their ingestion_timestamp.
WithoutTimestamp(rows) ==
    [i \in 1..Len(rows) |->
        [customer_id |-> rows[i].customer_id,
         gender |-> rows[i].gender,
         tenure |-> rows[i].tenure,
         monthly_charges |-> rows[i].monthly_charges,
         total_charges |-> rows[i].total_charges,
         partner |-> rows[i].partner,
         dependents |-> rows[i].dependents,
         phone_service |-> rows[i].phone_service,
         paperless_billing |-> rows[i].paperless_billing,
         churned |-> rows[i].churned,
         avg_monthly_revenue |-> rows[i].avg_monthly_revenue,
         customer_segment |-> rows[i].customer_segment]]

\* Two runs on the same raw file that both succeeded, the second after the first.
SucceededPairs ==
    {p \in (DOMAIN history) \X (DOMAIN history) :
        /\ p[1] < p[2]
        /\ history[p[1]].result = "True"
        /\ history[p[2]].result = "True"}

\* C6 as stated: after the pipeline has run twice on the same raw input, the
\* staging table holds a record set identical to the one after the first run.
C6_IdenticalRecordSet ==
    \A p \in SucceededPairs : history[p[2]].silver = history[p[1]].silver

\* C6, amended: after the pipeline has run twice on the same raw input, the
\* staging table holds the same records as after the first run in every column
\* but ingestion_timestamp, and as many rows: the second run replaces the
\* contents of the table and appends nothing.
C6_IdempotentUpToTimestamp ==
    \A p \in SucceededPairs :
        /\ WithoutTimestamp(history[p[2]].silver.rows)
              = WithoutTimestamp(history[p[1]].silver.rows)
        /\ Len(history[p[2]].silver.rows) = Len(history[p[1]].silver.rows)
        /\ history[p[2]].silver.cols = history[p[1]].silver.cols

\* Two runs succeeded one after the other on a file with a duplicate-free and a
\* repaired row, and the table was loaded both times.
C6_Witness ==
    /\ Len(history) >= 2
    /\ history[1].result = "True"
    /\ history[2].result = "True"
    /\ Len(history[2].silver.rows) = 2
    /\ history[2].silver.rows[1].ingestion_timestamp
          # history[1].silver.rows[1].ingestion_timestamp

\* ------------------------------------------------------------------- C7
KnownBoolCells == {"Yes", "No", "No phone service", "No internet service"}

HasUnknownBoolean ==
    \E k \in 1..Len(raw.rows) : \E f \in BooleanFields :
        raw.rows[k][f] \notin KnownBoolCells

\* C7: when a raw record has, in Partner, Dependents, PhoneService,
\* PaperlessBilling or Churn, a value outside {Yes, No, No phone service, No
\* internet service}, the transformation stage raises: clean_and_transform
\* returns no frame, nothing is loaded into the staging table and the run does
\* not succeed.
C7_UnknownBooleanIsFatal ==
    (raw.cols = RawColumns /\ HasUnknownBoolean) =>
        /\ ~Cleaned
        /\ silver.rows = <<>>
        /\ "transformation" \notin completed
        /\ pc # "succeeded"

\* ------------------------------------------------------------------- C8
\* C8: the transformation stage completes only when the record count and the
\* unique-customer count read back from the staging table equal the number of
\* records clean_and_transform produced; otherwise it fails.
C8_MaterializationChecked ==
    "transformation" \in completed =>
        /\ validation.total_records = report.final_rows
        /\ validation.unique_customers = report.final_rows

\* ------------------------------------------------------------------- C9
\* C9: when one of the 21 required raw columns is absent from the raw file, the
\* transformation stage never completes and the run never succeeds, nothing is
\* loaded in that run, and no record set lacking a column of the table schema is
\* ever loaded into the staging table.
C9_MissingColumnIsFatal ==
    /\ \A c \in RawColumns :
          c \notin raw.cols =>
             /\ "transformation" \notin completed
             /\ result # "True"
             /\ silver.rows = <<>>
    /\ silver.rows # <<>> => column_order \subseteq silver.cols

\* ------------------------------------------------------------------ C10
\* The messages that contain 'already exists' or 'does not exist', in any case.
ExpectedMessages == {MsgAlreadyExists, MsgAlreadyExistsUpper, MsgDoesNotExist}

\* The chunk holds a statement of the script.
holds_statement(chunk) == chunk \in {"sql", "comment_sql"}

\* The statements of the script after chunk `after` and before chunk upTo, in
\* script order.
StatementIndexes(after, upTo) ==
    SelectIdx([i \in 1..Len(script) |-> i],
              [i \in 1..Len(script) |->
                  holds_statement(script[i]) /\ after < i /\ i < upTo], 1)

\* The statements executed after chunk `after`, in the order of execution.
ExecutedAfter(after) ==
    SelectIdx([k \in 1..Len(execLog) |-> execLog[k].stmt],
              [k \in 1..Len(execLog) |-> execLog[k].stmt > after], 1)

\* The statement executed last raised an error that is not one of the expected.
RaisedInLoop ==
    /\ execLog # <<>>
    /\ execLog[Len(execLog)].error # <<>>
    /\ execLog[Len(execLog)].error \notin ExpectedMessages

\* C10: in build_gold_models an error whose message contains 'already exists' or
\* 'does not exist' (in any case) is swallowed and every remaining statement of
\* the script is still executed, in order: each statement after the one that
\* raised, up to where the loop is (all of them once build_gold_models
\* returned); any other error is re-raised at once: it is the last statement
\* executed, the modeling stage fails and the run is Failed.
C10_ExpectedErrorsSwallowed ==
    \A k \in 1..Len(execLog) :
        LET e == execLog[k] IN
        /\ (e.error # <<>> /\ e.error \in ExpectedMessages) =>
              /\ stmtIdx > e.stmt
              /\ ExecutedAfter(e.stmt) =
                    StatementIndexes(e.stmt, IF RaisedInLoop THEN stmtIdx + 1 ELSE stmtIdx)
        /\ (e.error # <<>> /\ e.error \notin ExpectedMessages) =>
              /\ k = Len(execLog)
              /\ stmtIdx = e.stmt
              /\ pc = "failed"
              /\ result = "False"
              /\ "modeling" \notin completed
              /\ goldSteps = <<>>

\* ------------------------------------------------------------------ C11
\* create_silver_table raised: the script was the only store operation of the run.
CreateRaised ==
    /\ storeLog = <<"silver_staging.sql">>
    /\ raised.type = "SQLAlchemyError"

\* C11: when the execution of the silver staging script in create_silver_table
\* fails because the object already exists, the run is not aborted (the load and
\* the validation still execute); any other error of that script is fatal.
C11_BenignDdlErrorNotFatal ==
    CreateRaised =>
        IF contains(lower(raised.msg), <<"already", "exists">>)
        THEN pc # "failed" /\ result # "False"
        ELSE pc = "failed" /\ result = "False" /\ "transformation" \notin completed

\* ------------------------------------------------------------------ C12
\* C12: the replacement of silver.customers_staging by load_to_silver is all or
\* nothing for other sessions: whenever one reads the table while to_sql is at
\* work, or after it failed, it sees the complete previous record set or the
\* complete new one, never an empty or a partially loaded table.
C12_AtomicReplace ==
    observed.read =>
        /\ observed.table.exists
        /\ \/ observed.table.rows = observed.previous.rows
           \/ observed.table.rows = observed.new.rows

\* ------------------------------------------------------------------ C13
\* The transformation stage of the current run raised.
TransformationRaised ==
    /\ pc = "failed"
    /\ started = <<"ingestion", "transformation">>

\* Causes of a failure that are no property of the records: a file is missing
\* or cannot be written,
\* the store raised (other than on the type of a column the records gave it), or
\* the file has no rows at all.
RaisedForOtherCause ==
    \/ raised.type \in {"FileNotFoundError", "OSError"}
    \/ raised.type = "SQLAlchemyError" /\ raised.msg # MsgOperatorDoesNotExist
    \/ raised.type = "ZeroDivisionError" /\ raw.rows = <<>>

\* C13: for every raw input that has all required columns and only recognised
\* boolean values, null cells, duplicate customer ids and negative numeric values
\* never make clean_and_transform or the transformation stage raise: the stage
\* fails only for a cause that is no property of the records, and the cleaned
\* frame keeps a record for every customer id of the file.
C13_DataQualityNeverFatal ==
    (raw.cols = RawColumns
     /\ \A k \in 1..Len(raw.rows) : \A f \in BooleanFields :
            raw.rows[k][f] \in KnownBoolCells \cup {NullCell}) =>
        /\ TransformationRaised => RaisedForOtherCause
        /\ Cleaned =>
              {df.rows[i].customer_id : i \in 1..Len(df.rows)}
                 = {raw.rows[k].customerID : k \in 1..Len(raw.rows)}

\* ------------------------------------------------------------------ C14
\* The records of the cleaned frame whose raw cell, in the first raw row of their
\* id, was one of the given negative literals and whose field is now 0.
RepairedToZero(rawField, field, negatives) ==
    {i \in 1..Len(df.rows) :
        /\ FirstRawRow(df.rows[i].customer_id)[rawField] \in negatives
        /\ df.rows[i][field] = 0}

\* C14: the negative-tenure counter of the report is the number of records of the
\* final set whose tenure range repair changed to 0, and the negative-charge
\* counter the number of those whose monthly_charges it changed to 0; a row
\* dropped as a duplicate is not counted, and a record with raw tenure -3 counts 1.
C14_RepairCountersExact ==
    Cleaned =>
        /\ report.invalid_tenure
              = Cardinality(RepairedToZero("tenure", "tenure", NegativeTenureCells))
        /\ report.invalid_charges
              = Cardinality(RepairedToZero("MonthlyCharges", "monthly_charges",
                                           NegativeChargeCells))
        /\ (Len(raw.rows) = 1 /\ raw.rows[1].tenure = "-3") => report.invalid_tenure = 1

\* Two raw rows of one id, both with tenure -3 and MonthlyCharges -5: the second
\* was dropped as a duplicate and each counter is 1.
C14_Witness ==
    /\ Cleaned
    /\ Len(raw.rows) = 2
    /\ raw.rows[1].customerID = raw.rows[2].customerID
    /\ \A k \in 1..2 : raw.rows[k].tenure = "-3" /\ raw.rows[k].MonthlyCharges = "-5"
    /\ report.invalid_tenure = 1
    /\ report.invalid_charges = 1
    /\ Len(df.rows) = 1

\* ------------------------------------------------------------------ C15
\* The rows duplicate resolution drops: all but the first of each customer id.
DroppedAsDuplicates ==
    Len(raw.rows) - Cardinality({raw.rows[k].customerID : k \in 1..Len(raw.rows)})

\* C15: the duplicate count of the transformation summary is the number of rows
\* dropped by duplicate resolution (1 when two raw rows share a customer_id), and
\* the rows-removed count is initial rows minus final rows and that same number.
C15_DuplicateCountInSummary ==
    Cleaned =>
        /\ report.duplicate_customer_ids = DroppedAsDuplicates
        /\ report.rows_removed = report.initial_rows - report.final_rows
        /\ report.rows_removed = DroppedAsDuplicates

\* ------------------------------------------------------------------ C16
\* The cells of the inputs that do not parse as a number.
Unparsable == {" ", "abc", NullCell}

\* C16: a tenure, MonthlyCharges or TotalCharges cell that does not parse as a
\* number (the single space included) is coerced to 0 and its record is kept: it
\* never makes clean_and_transform raise and never removes the row.  A record
\* with tenure '0', TotalCharges ' ' and MonthlyCharges '29.85' gets
\* total_charges 0, avg_monthly_revenue 29.85 and customer_segment 'New'.
C16_LenientCoercion ==
    /\ (raw.cols = RawColumns /\ TransformationRaised /\ ~Cleaned
        /\ raised.type # "FileNotFoundError") =>
          \A k \in 1..Len(raw.rows) : raw.rows[k].gender = NullCell
    /\ Cleaned =>
        /\ Len(df.rows) = Cardinality({raw.rows[k].customerID : k \in 1..Len(raw.rows)})
        /\ \A k \in 1..Len(raw.rows) :
              raw.rows[k] = FirstRawRow(raw.rows[k].customerID) =>
                 \E i \in 1..Len(df.rows) :
                    /\ df.rows[i].customer_id = raw.rows[k].customerID
                    /\ raw.rows[k].tenure \in Unparsable => df.rows[i].tenure = 0
                    /\ raw.rows[k].MonthlyCharges \in Unparsable
                          => df.rows[i].monthly_charges = 0
                    /\ raw.rows[k].TotalCharges \in Unparsable
                          => df.rows[i].total_charges = 0
                    /\ (/\ raw.rows[k].tenure = "0"
                        /\ raw.rows[k].TotalCharges = " "
                        /\ raw.rows[k].MonthlyCharges = "29.85") =>
                          /\ df.rows[i].total_charges = 0
                          /\ RatEq(df.rows[i].avg_monthly_revenue,
                                   [num |-> 2985, den |-> 1])
                          /\ df.rows[i].customer_segment = "New"

\* The record with tenure '0', TotalCharges ' ' and MonthlyCharges '29.85' was
\* cleaned and loaded: total_charges 0, avg_monthly_revenue 29.85, segment 'New'.
C16_Witness ==
    /\ Len(raw.rows) = 1
    /\ raw.rows[1].tenure = "0"
    /\ raw.rows[1].TotalCharges = " "
    /\ raw.rows[1].MonthlyCharges = "29.85"
    /\ Len(silver.rows) = 1
    /\ silver.rows[1].total_charges = 0
    /\ silver.rows[1].avg_monthly_revenue = [num |-> 2985, den |-> 1]
    /\ silver.rows[1].customer_segment = "New"

\* ------------------------------------------------------------------ C17
\* read_bronze_data or clean_and_transform raised in the current run.
RaisedBeforeStore ==
    /\ pc = "failed"
    /\ raised.type \in {"FileNotFoundError", "KeyError", "AttributeError"}
    /\ ~Cleaned

\* The staging table as the run before the current one left it.
SilverBeforeRun ==
    IF Len(history) >= 2 THEN history[Len(history) - 1].silver ELSE NoTable

\* C17: when read_bronze_data or clean_and_transform raises, no statement was
\* executed against the store in the transformation stage (neither
\* create_silver_table nor load_to_silver was called), silver.customers_staging
\* holds what it held before the run, and the modeling stage is never started.
C17_StoreUntouchedBeforeCleaning ==
    RaisedBeforeStore =>
        /\ storeLog = <<>>
        /\ txn = NoTxn
        /\ silver = SilverBeforeRun
        /\ started = <<"ingestion", "transformation">>
        /\ completed = {"ingestion"}
        /\ stmtIdx = 1 /\ execLog = <<>> /\ gold = <<>> /\ goldSteps = <<>>
        /\ result = "False"

\* The first run loaded the staging table; in the second read_bronze_data raised
\* and the table still holds the rows of the first.
C17_Witness ==
    /\ RaisedBeforeStore
    /\ raised.type = "FileNotFoundError"
    /\ Len(history) = 2
    /\ history[1].result = "True"
    /\ Len(silver.rows) = 2
    /\ silver = history[1].silver

\* ------------------------------------------------------------------ C18
\* The statements of execLog that raised nothing, in the order of execution.
ExecutedWithoutError ==
    SelectIdx([k \in 1..Len(execLog) |-> execLog[k].stmt],
              [k \in 1..Len(execLog) |-> execLog[k].error = <<>>], 1)

C18_Committed ==
    /\ gold = ExecutedWithoutError
    /\ \A k \in 1..(Len(execLog) - 1) : execLog[k].stmt < execLog[k + 1].stmt
    /\ RaisedInLoop =>
          /\ stmtIdx = execLog[Len(execLog)].stmt
          /\ \A k \in 1..Len(execLog) : execLog[k].stmt <= stmtIdx
          /\ goldSteps = <<>>
          /\ pc = "failed"
          /\ "modeling" \notin completed

\* Within a run, what a statement committed is never rolled back.
C18_NoRollback ==
    runs' = runs =>
        /\ Len(gold) <= Len(gold')
        /\ SubSeq(gold', 1, Len(gold)) = gold

\* C18: build_gold_models executes the statements one at a time in script order,
\* each committed in a transaction of its own.  When statement k raises an error
\* that is not benign, what the statements executed before it committed stays
\* committed, no statement after k is executed, and validate_gold_models,
\* generate_insights and save_results are not run.
C18_StatementTransactions == [](C18_Committed) /\ [][C18_NoRollback]_vars

\* The first statement committed, the second raised a syntax error: the run
\* failed and the first statement is still committed.
C18_Witness ==
    /\ RaisedInLoop
    /\ Len(execLog) = 2
    /\ execLog[1].error = <<>>
    /\ execLog[2].error = MsgSyntaxError
    /\ gold = <<1>>
    /\ pc = "failed"

====
